---- MODULE Spec2Model ----
(***************************************************************************)
(* Request admission and recommendation matching of kr-name-suggester:     *)
(* the rate limiter (checkRateLimit), the recommend handler, the shared    *)
(* result page (getServerSideProps), the identifier normaliser             *)
(* (name_id.replace(/_\d+$/, '')) and the vibe classifier.                  *)
(*                                                                         *)
(* Strings are sequences of one-character strings; a Hangul syllable is    *)
(* written as its code point ("U+C9C0").  Time is in seconds.               *)
(***************************************************************************)
EXTENDS Integers, Sequences, FiniteSets, Bags, TLC

VARIABLES
    now,          \* the clock read by Date.now() and by the store's created_at default
    api_logs,     \* table api_logs: bag of rows [ip_address, created_at]
    reqs,         \* the handler invocations in flight, one record per slot
    lastReject,   \* per caller: the run of rejections since its last admitted call
    resp,         \* the handler's latest response, until the handler or the clock moves on
    korean_names, \* table korean_names: set of rows
    celebrities,  \* table celebrities: set of rows [id, name_id]
    shared,       \* the page's latest props, until the handler or the clock moves on
    norm,         \* identifier normaliser applied to one name_id
    face,         \* vibe classification of one face annotation
    request,      \* what the invocation that answered last was given to read
    card          \* the result card in the browser: its React state and its handler in flight

vars ==
    <<now, api_logs, reqs, lastReject, resp, korean_names, celebrities,
      shared, norm, face, request, card>>

----------------------------------------------------------------------------
(* Bounds of the model *)

MaxLen == 5        \* longest name_id enumerated by the normaliser specification

Alphabet == {"a", "_", "0", "1"}

----------------------------------------------------------------------------
(* Strings *)

Digits == {"0", "1", "2", "3", "4", "5", "6", "7", "8", "9"}

\* \d of a JavaScript regular expression without the u flag: ASCII digits only
IsDigit(c) == c \in Digits

Str(n) == UNION {[1..k -> Alphabet] : k \in 0..n}

\* number of consecutive \d characters of s from position i on (greedy \d+)
RECURSIVE DigitRun(_, _)
DigitRun(s, i) ==
    IF i > Len(s) THEN 0
    ELSE IF IsDigit(s[i]) THEN 1 + DigitRun(s, i + 1)
    ELSE 0

\* /_\d+$/ tried at start position i: the position of the last matched
\* character, 0 when there is no match there.  \d+ takes the whole digit run;
\* giving digits back never helps, $ only matches at the end of the input.
MatchEnd(s, i) ==
    IF s[i] # "_" THEN 0
    ELSE LET n == DigitRun(s, i + 1)
         IN  IF n >= 1 /\ i + n = Len(s) THEN i + n ELSE 0

\* the regular expression engine scans the start positions left to right
RECURSIVE FirstMatch(_, _)
FirstMatch(s, i) ==
    IF i > Len(s) THEN 0
    ELSE IF MatchEnd(s, i) # 0 THEN i
    ELSE FirstMatch(s, i + 1)

\* a faulty variant of ReplaceSuffix: /(_\d+)+$/ in place of /_\d+$/, every group goes
RECURSIVE ReplaceSuffixAll(_)
ReplaceSuffixAll(s) ==
    LET m == FirstMatch(s, 1)
    IN  IF m = 0 THEN s ELSE ReplaceSuffixAll(SubSeq(s, 1, m - 1))

\* a faulty variant of ReplaceSuffix: /_\d+/ without the $ anchor, first group goes
RECURSIVE FirstGroup(_, _)
FirstGroup(s, i) ==
    IF i > Len(s) THEN 0
    ELSE IF s[i] = "_" /\ DigitRun(s, i + 1) >= 1 THEN i
    ELSE FirstGroup(s, i + 1)

ReplaceUnanchored(s) ==
    LET m == FirstGroup(s, 1)
    IN  IF m = 0 THEN s
        ELSE SubSeq(s, 1, m - 1) \o SubSeq(s, m + 1 + DigitRun(s, m + 1), Len(s))

\* s.replace(/_\d+$/, ''): the first match is replaced by the empty string
ReplaceSuffix(s) ==
    LET m == FirstMatch(s, 1)
    IN  IF m = 0 THEN s
        ELSE SubSeq(s, 1, m - 1) \o SubSeq(s, MatchEnd(s, m) + 1, Len(s))

\* the three places that derive the base id of a name
baseNameId(name_id) == ReplaceSuffix(name_id)

baseNameIdShared(name_id) == ReplaceSuffix(name_id)

baseNameIdSingle(name_id) == ReplaceSuffix(name_id)

----------------------------------------------------------------------------
(* Vibe classifier *)

Likelihood ==
    {"UNKNOWN", "VERY_UNLIKELY", "UNLIKELY", "POSSIBLE", "LIKELY", "VERY_LIKELY"}

\* a faulty variant of vibeTag: sorrow is tested before joy
vibeTagSorrowFirst(f) ==
    IF f.sorrowLikelihood = "VERY_LIKELY" \/ f.sorrowLikelihood = "LIKELY" THEN "calm"
    ELSE IF f.joyLikelihood = "VERY_LIKELY" \/ f.joyLikelihood = "LIKELY" THEN "friendly"
    ELSE IF f.angerLikelihood = "VERY_LIKELY" \/ f.angerLikelihood = "LIKELY" THEN "cool"
    ELSE "friendly"

\* let vibeTag = 'friendly'; if ... else if ... else if ...
vibeTag(f) ==
    IF f.joyLikelihood = "VERY_LIKELY" \/ f.joyLikelihood = "LIKELY" THEN "friendly"
    ELSE IF f.sorrowLikelihood = "VERY_LIKELY" \/ f.sorrowLikelihood = "LIKELY" THEN "calm"
    ELSE IF f.angerLikelihood = "VERY_LIKELY" \/ f.angerLikelihood = "LIKELY" THEN "cool"
    ELSE "friendly"

\* const vibeTag = (...) ? 'friendly' : (...) ? 'calm' : (...) ? 'cool' : 'friendly'
vibeTagTernary(f) ==
    IF f.joyLikelihood = "VERY_LIKELY" \/ f.joyLikelihood = "LIKELY"
    THEN "friendly"
    ELSE IF f.sorrowLikelihood = "VERY_LIKELY" \/ f.sorrowLikelihood = "LIKELY"
         THEN "calm"
         ELSE IF f.angerLikelihood = "VERY_LIKELY" \/ f.angerLikelihood = "LIKELY"
              THEN "cool"
              ELSE "friendly"

----------------------------------------------------------------------------
(* The store: api_logs, and the rate limiter *)

MaxTime == 61      \* the last instant of a behaviour
MaxRows == 6       \* api_logs rows, stored or about to be, in one behaviour
MaxInFlight == 2   \* handler invocations suspended at an await at the same time
MaxRaceRows == 8   \* api_logs rows, stored or about to be, in a behaviour of overlapping calls
MaxTimers == 2     \* setTimeout callbacks of showFeedback pending at the same time

WindowSec == 60    \* Date.now() - 60 * 1000
Limit == 5         \* count >= 5

\* the instants at which something happens: the first, the one a full window
\* later, and one past it
Instants == {0, WindowSec, MaxTime}

Slots == 1..MaxInFlight

\* x-forwarded-for header values and socket addresses the model sends
Forwarded == {"", "ipA"}
Remote == {"ipB"}

\* x-forwarded-for values that a chain of proxies leaves: the client's address
\* first, then the address of each proxy but the last
ForwardedChains == {"ipA, ipC", "ipA, ipD"}

\* req.headers['x-forwarded-for'] || req.socket.remoteAddress || '127.0.0.1'
clientIp(xff, remoteAddress) ==
    IF xff # "" THEN xff
    ELSE IF remoteAddress # "" THEN remoteAddress
    ELSE "127.0.0.1"

\* the rows selected by .eq('ip_address', ip).gte('created_at', oneMinuteAgo)
Selected(rows, ip, since) ==
    {row \in BagToSet(rows) : row.ip_address = ip /\ row.created_at >= since}

RECURSIVE Copies(_, _)
Copies(rows, kinds) ==
    IF kinds = {} THEN 0
    ELSE LET row == CHOOSE x \in kinds : TRUE
         IN  CopiesIn(row, rows) + Copies(rows, kinds \ {row})

\* a faulty variant of CountRows: the created_at filter is left out
CountRowsEver(rows, ip, since) == Copies(rows, Selected(rows, ip, 0))

\* a faulty variant of CountRows: the ip_address filter is left out
CountRowsAnyCaller(rows, ip, since) ==
    Copies(rows, {row \in BagToSet(rows) : row.created_at >= since})

\* select('*', { count: 'exact', head: true }) with the two filters
CountRows(rows, ip, since) == Copies(rows, Selected(rows, ip, since))

\* what the count query can answer: a count, an error, or neither
CountOutcomes == {"ok", "error", "null"}

\* what the insert can answer: stored, or an error object (which nobody reads)
InsertOutcomes == {"ok", "error"}

\* a faulty variant of OverLimit: count > 5
OverLimitStrict(count) == count # -1 /\ count > Limit

\* count !== null && count >= 5  (null is written -1)
OverLimit(count) == count # -1 /\ count >= Limit

\* a faulty variant of RateLimitErrorResult: an error of the count query lets the call pass
FailOpen(error) == "pass"

\* if (error) { console.error(...); return false; }
RateLimitErrorResult(error) == IF error THEN "reject" ELSE "pass"

----------------------------------------------------------------------------
(* The store: korean_names and celebrities *)

JISOO == <<"j", "i", "s", "o", "o", "_", "U+C9C0", "U+C218">>
SEOJUN == <<"s", "e", "o", "j", "u", "n", "_", "U+C11C", "U+C900">>
FRIENDLY == <<"f", "r", "i", "e", "n", "d", "l", "y">>
CALM == <<"c", "a", "l", "m">>
COOL == <<"c", "o", "o", "l">>

\* const debugFullNameId = 'jisoo_<U+C9C0><U+C218>_01'
debugFullNameId == JISOO \o <<"_", "0", "1">>

\* the vibe tag as the characters spliced into the LIKE pattern
TagChars(tag) ==
    CASE tag = "friendly" -> FRIENDLY
      [] tag = "calm" -> CALM
      [] tag = "cool" -> COOL

\* rows the name table can hold
NameUniverse ==
    { [id |-> 1, name_id |-> debugFullNameId, gender_primary |-> "F",
       vibe_tags |-> FRIENDLY \o <<",">> \o CALM],
      [id |-> 2, name_id |-> JISOO \o <<"_", "0", "2">>, gender_primary |-> "F",
       vibe_tags |-> COOL],
      [id |-> 3, name_id |-> SEOJUN, gender_primary |-> "M",
       vibe_tags |-> FRIENDLY \o <<",">> \o COOL],
      [id |-> 4, name_id |-> <<"h", "a", "_", "U+D558">>, gender_primary |-> "U",
       vibe_tags |-> CALM] }

\* rows the celebrity table can hold: filed under a base id, or under a full id
CelebUniverse ==
    { [id |-> 1, name_id |-> JISOO],
      [id |-> 2, name_id |-> debugFullNameId],
      [id |-> 3, name_id |-> SEOJUN],
      [id |-> 4, name_id |-> <<"h", "a", "n", "U+D558">>] }

NameIds == {n.id : n \in NameUniverse}

\* PostgreSQL LIKE, as PostgREST hands it down: % (or *) matches any run of
\* characters, _ matches any one character, everything else matches itself
RECURSIVE LikeFrom(_, _, _, _)
LikeFrom(s, i, p, j) ==
    IF j > Len(p) THEN i > Len(s)
    ELSE IF p[j] = "%" \/ p[j] = "*"
         THEN \E k \in i..(Len(s) + 1) : LikeFrom(s, k, p, j + 1)
         ELSE /\ i <= Len(s)
              /\ (p[j] = "_" \/ p[j] = s[i])
              /\ LikeFrom(s, i + 1, p, j + 1)

Like(s, p) == LikeFrom(s, 1, p, 1)

\* .like('vibe_tags', `%${vibeTag}%`), then
\* gender === 'U' ? .eq('gender_primary', 'U') : .in('gender_primary', [gender, 'U'])
CandidateNames(names, tag, gender) ==
    { n \in names :
        /\ Like(n.vibe_tags, <<"%">> \o TagChars(tag) \o <<"%">>)
        /\ IF gender = "U" THEN n.gender_primary = "U"
           ELSE n.gender_primary \in {gender, "U"} }

\* .eq('name_id', x).single(): the row when exactly one row matches
SingleByNameId(names, x) ==
    LET rows == {n \in names : n.name_id = x}
    IN  IF Cardinality(rows) = 1 THEN rows ELSE {}

\* supabase.from('celebrities').select('*').eq('name_id', baseNameId)
CelebritiesOf(celebs, name_id) ==
    {c \in celebs : c.name_id = baseNameId(name_id)}

\* supabase.from('celebrities').select('*').like('name_id', `${baseNameId}%`)
CelebritiesLike(celebs, name_id) ==
    {c \in celebs : Like(c.name_id, baseNameIdShared(name_id) \o <<"%">>)}

----------------------------------------------------------------------------
(* The recommend handler after admission *)

RandomGrain == 4   \* Math.random() is drawn from {0, 1/4, 2/4, 3/4}

Images == {"", "data:image/png;base64,AAAA"}
Genders == {"", "F", "M", "U"}
Ages == {"", "25", "999"}

\* the likelihoods the handler specifications feed the classifier with
HandlerFaces ==
    { [joyLikelihood |-> j, sorrowLikelihood |-> s, angerLikelihood |-> a] :
        <<j, s, a>> \in { <<"LIKELY", "VERY_LIKELY", "UNLIKELY">>,
                          <<"UNLIKELY", "VERY_LIKELY", "LIKELY">>,
                          <<"UNLIKELY", "UNLIKELY", "LIKELY">>,
                          <<"UNLIKELY", "UNLIKELY", "UNLIKELY">> } }

\* everything one invocation reads from outside after it was admitted:
\* the body, what annotateImage does, what the store answers, Math.random()
PlainInput ==
    [image |-> "data:image/png;base64,AAAA", gender |-> "F", age |-> "25",
     vision |-> "ok", faces |-> 1,
     face |-> [joyLikelihood |-> "LIKELY", sorrowLikelihood |-> "UNLIKELY",
               angerLikelihood |-> "UNLIKELY"],
     namesError |-> FALSE, random |-> 0, celebError |-> FALSE]

Bodies == [image : Images, gender : Genders, age : Ages]

WithBody(in, b) ==
    [in EXCEPT !.image = b.image, !.gender = b.gender, !.age = b.age]

BodyOk(b) == b.image # "" /\ b.gender # "" /\ b.age # ""

\* bodies the validation turns away
InvalidInputs == {WithBody(PlainInput, b) : b \in {x \in Bodies : ~BodyOk(x)}}

\* age '999': only the store is consulted
DebugInputs ==
    { [WithBody(PlainInput, b) EXCEPT !.namesError = e[1], !.celebError = e[2]] :
        b \in {x \in Bodies : BodyOk(x) /\ x.age = "999"},
        e \in BOOLEAN \X BOOLEAN }

\* annotateImage throws, or reports no face list, no face, or two faces
VisionInputs ==
    { [WithBody(PlainInput, b) EXCEPT !.vision = v[1], !.faces = v[2]] :
        b \in {x \in Bodies : BodyOk(x) /\ x.age # "999"},
        v \in {<<"throw", 1>>, <<"ok", -1>>, <<"ok", 0>>, <<"ok", 2>>} }

\* one face: classification, candidate query, random choice, celebrities
NormalInputs ==
    { [WithBody(PlainInput, b) EXCEPT !.face = f, !.namesError = e[1],
                                      !.celebError = e[2], !.random = u] :
        b \in {x \in Bodies : BodyOk(x) /\ x.age # "999"},
        f \in HandlerFaces, e \in BOOLEAN \X BOOLEAN, u \in 0..(RandomGrain - 1) }

Inputs == InvalidInputs \cup DebugInputs \cup VisionInputs \cup NormalInputs

\* the requests the rate limiter specifications send
GateInputs ==
    { PlainInput,
      [PlainInput EXCEPT !.gender = ""],
      [PlainInput EXCEPT !.image = "", !.age = "999"],
      [PlainInput EXCEPT !.age = "999"],
      [PlainInput EXCEPT !.vision = "throw"],
      [PlainInput EXCEPT !.faces = 2] }

\* the rows in the order the store returns them (by id)
RECURSIVE RowsById(_)
RowsById(rows) ==
    IF rows = {} THEN << >>
    ELSE LET first == CHOOSE n \in rows : \A m \in rows : n.id <= m.id
         IN  <<first>> \o RowsById(rows \ {first})

\* a faulty variant of RandomName: names[0]
RandomNameFirst(names, random) == RowsById(names)[1]

\* names[Math.floor(Math.random() * names.length)]
RandomName(names, random) ==
    RowsById(names)[((random * Cardinality(names)) \div RandomGrain) + 1]

\* a faulty variant of FaceCountMessage: ${faces?.length} without the || 0
FaceCountMessageRaw(faces) ==
    "Expected 1 face, but found "
        \o (IF faces < 0 THEN "undefined" ELSE ToString(faces)) \o "."

\* `Expected 1 face, but found ${faces?.length || 0}.`
FaceCountMessage(faces) ==
    "Expected 1 face, but found " \o ToString(IF faces < 0 THEN 0 ELSE faces) \o "."

\* a faulty variant of Answer: the celebrity query is sent before the handler
\* gives its answer of failure
AnswerThenCelebrities(status, message, external, failed) ==
    [status |-> status, success |-> FALSE, message |-> message,
     external |-> external \o <<"celebrities">>, name |-> 0, celebrities |-> {},
     failed |-> failed]

Answer(status, message, external, failed) ==
    [status |-> status, success |-> FALSE, message |-> message,
     external |-> external, name |-> 0, celebrities |-> {}, failed |-> failed]

\* a faulty variant of Success: the image is classified once more on the way to
\* the celebrities, in the override as well
SuccessReclassified(recommendedName, celebs, in, external) ==
    [status |-> 200, success |-> TRUE, message |-> "",
     external |-> external \o <<"annotateImage", "celebrities">>,
     name |-> recommendedName.id,
     celebrities |->
        IF in.celebError THEN {}
        ELSE {c.id : c \in CelebritiesOf(celebs, recommendedName.name_id)},
     failed |-> IF in.celebError THEN {"celebrities"} ELSE {}]

\* lines 91-105: the base id, the celebrities filed under it, the 200 response
Success(recommendedName, celebs, in, external) ==
    [status |-> 200, success |-> TRUE, message |-> "",
     external |-> external \o <<"celebrities">>,
     name |-> recommendedName.id,
     celebrities |->
        IF in.celebError THEN {}
        ELSE {c.id : c \in CelebritiesOf(celebs, recommendedName.name_id)},
     failed |-> IF in.celebError THEN {"celebrities"} ELSE {}]

\* lines 47-111 of the handler, from the validation of the body to the response
Recommend(names, celebs, in) ==
    IF in.image = "" \/ in.gender = "" \/ in.age = ""
    THEN Answer(400, "Image, gender, and age are required.", << >>, {})
    ELSE IF in.age = "999"
    THEN LET nameData ==
                 IF in.namesError THEN {} ELSE SingleByNameId(names, debugFullNameId)
         IN  IF nameData = {}
             THEN Answer(404, "Debug name data for 'jisoo_<U+C9C0><U+C218>_01' not found.",
                         <<"korean_names">>,
                         IF in.namesError THEN {"korean_names"} ELSE {})
             ELSE Success(CHOOSE n \in nameData : TRUE, celebs, in, <<"korean_names">>)
    ELSE IF in.vision = "throw"
    THEN Answer(500, "An error occurred during the process.", <<"annotateImage">>,
                {"annotateImage"})
    ELSE IF in.faces # 1
    THEN Answer(400, FaceCountMessage(in.faces), <<"annotateImage">>, {})
    ELSE LET found ==
                 IF in.namesError THEN {}
                 ELSE CandidateNames(names, vibeTag(in.face), in.gender)
         IN  IF found = {}
             THEN Answer(404, "Sorry, we couldn't find a matching name for your vibe.",
                         <<"annotateImage", "korean_names">>,
                         IF in.namesError THEN {"korean_names"} ELSE {})
             ELSE Success(RandomName(found, in.random), celebs, in,
                          <<"annotateImage", "korean_names">>)

----------------------------------------------------------------------------
(* State and actions *)

IdleSlot == [pc |-> "idle", ip |-> "", oneMinuteAgo |-> 0, error |-> FALSE, count |-> 0]

NoReject == [n |-> 0, oldest |-> 0]

Callers == {clientIp(x, a) : x \in Forwarded \cup ForwardedChains, a \in Remote}

NoResp ==
    [status |-> 0, success |-> FALSE, message |-> "", external |-> << >>,
     name |-> 0, celebrities |-> {}, failed |-> {},
     ip |-> "", error |-> FALSE, count |-> -1, isAllowed |-> FALSE,
     appended |-> 0, streak |-> 0,
     body |-> [image |-> "", gender |-> "", age |-> ""]]

\* nothing was read yet
NoRequest == [PlainInput EXCEPT !.image = "", !.gender = "", !.age = ""]

\* the card as useState leaves it at the first render, before useEffect has run:
\* no handler in flight (pc), the isMobile its handler captured (mobile)
CardMounting ==
    [isSharing |-> FALSE, isMobile |-> FALSE, mounted |-> FALSE, shareMessage |-> "",
     timers |-> 0, pc |-> "idle", mobile |-> FALSE, done |-> ""]

NoShared ==
    [id |-> 0, recommendation |-> FALSE, name |-> 0, celebrities |-> {}, failed |-> {}]

NormIdle == [pc |-> "idle", name_id |-> << >>, write |-> << >>, read |-> << >>,
             single |-> << >>, twice |-> << >>]

FaceIdle == [pc |-> "idle", face |-> PlainInput.face, vibeTag |-> "", ternary |-> ""]

\* the response of an invocation that the rate limiter turned away (line 44)
TooFast(slot, error, count) ==
    [NoResp EXCEPT !.status = 429,
                   !.message = "You are trying too fast! Please wait a moment.",
                   !.external = <<"api_logs.count">>,
                   !.ip = slot.ip, !.error = error, !.count = count]

\* created_at of the oldest row the count query counted
OldestCounted(rows, ip, since) ==
    LET ts == {row.created_at : row \in Selected(rows, ip, since)}
    IN  IF ts = {} THEN 0 ELSE CHOOSE t \in ts : \A u \in ts : t <= u

\* api_logs as Limit - 1 admitted calls of one caller leave it: one slot is left
OneSlotLeft ==
    [row \in {[ip_address |-> "ipA", created_at |-> 0]} |-> Limit - 1]

\* no invocation in flight, nothing answered yet
InitServer ==
    /\ now = 0
    /\ reqs = [r \in Slots |-> IdleSlot]
    /\ lastReject = [ip \in Callers |-> NoReject]
    /\ resp = NoResp
    /\ shared = NoShared
    /\ request = NoRequest
    /\ card = CardMounting

InitStore ==
    /\ InitServer
    /\ norm = NormIdle
    /\ face = FaceIdle

\* the handler is deployed on a table that holds the rows of earlier calls
Init ==
    /\ InitStore
    /\ api_logs = OneSlotLeft
    /\ korean_names = NameUniverse
    /\ celebrities = CelebUniverse

\* the handler is deployed on an empty table
InitSeq ==
    /\ InitStore
    /\ api_logs = EmptyBag
    /\ korean_names = NameUniverse
    /\ celebrities = CelebUniverse

\* time passes
Tick ==
    /\ \E t \in Instants :
          /\ t > now
          /\ now' = t
    /\ resp' = NoResp
    /\ shared' = NoShared
    /\ UNCHANGED <<api_logs, reqs, lastReject, korean_names, celebrities, norm, face,
                   request, card>>

InFlight == {q \in Slots : reqs[q].pc # "idle"}

\* the lowest free slot takes the next invocation; the model stops taking
\* invocations once api_logs is full
FreeSlot(r) ==
    /\ reqs[r].pc = "idle"
    /\ \A q \in Slots : q < r => reqs[q].pc # "idle"
    /\ BagCardinality(api_logs) + Cardinality(InFlight) < MaxRows

\* lines 37-39: anything but POST is answered 405 at once
StartOther(r) ==
    /\ FreeSlot(r)
    /\ resp' = [NoResp EXCEPT !.status = 405, !.message = "Method Not Allowed"]
    /\ shared' = NoShared
    /\ UNCHANGED <<now, api_logs, reqs, lastReject, korean_names, celebrities,
                   norm, face, request, card>>

\* lines 41, 42, 22, 23: the caller is named, the window start is computed and
\* the count query is sent
StartPost(r, xff, remoteAddress) ==
    /\ FreeSlot(r)
    /\ reqs' = [reqs EXCEPT ![r] =
                  [pc |-> "count", ip |-> clientIp(xff, remoteAddress),
                   oneMinuteAgo |-> now - WindowSec, error |-> FALSE, count |-> 0]]
    /\ resp' = NoResp
    /\ shared' = NoShared
    /\ UNCHANGED <<now, api_logs, lastReject, korean_names, celebrities, norm, face, request, card>>

\* the same, for a caller that has no other invocation in flight
StartAlone(r, xff, remoteAddress) ==
    /\ \A q \in Slots : reqs[q].ip # clientIp(xff, remoteAddress)
    /\ StartPost(r, xff, remoteAddress)

\* lines 23-25 and 43-45: the count query answers; the invocation is turned
\* away with 429, or goes on to send the insert
Count(r, outcome) ==
    LET slot == reqs[r]
        error == outcome = "error"
        count == IF outcome = "ok"
                 THEN CountRows(api_logs, slot.ip, slot.oneMinuteAgo)
                 ELSE -1
    IN  /\ slot.pc = "count"
        /\ IF RateLimitErrorResult(error) = "reject"
           THEN /\ reqs' = [reqs EXCEPT ![r] = IdleSlot]
                /\ resp' = TooFast(slot, TRUE, -1)
           ELSE IF OverLimit(count)
           THEN /\ reqs' = [reqs EXCEPT ![r] = IdleSlot]
                /\ resp' = [TooFast(slot, FALSE, count) EXCEPT
                               !.streak = lastReject[slot.ip].n]
           ELSE /\ reqs' = [reqs EXCEPT ![r] =
                              [pc |-> "insert", ip |-> slot.ip, oneMinuteAgo |-> 0,
                               error |-> error, count |-> count]]
                /\ resp' = NoResp
        /\ shared' = NoShared
        /\ UNCHANGED <<now, api_logs, korean_names, celebrities, norm, face, card>>

\* lines 26-27 and 47-111: the insert answers, checkRateLimit returns true and
\* the handler runs to its response
Insert(r, outcome, in) ==
    LET slot == reqs[r]
        rec == Recommend(korean_names, celebrities, in)
    IN  /\ slot.pc = "insert"
        /\ api_logs' = IF outcome = "ok"
                       THEN api_logs (+)
                            SetToBag({[ip_address |-> slot.ip, created_at |-> now]})
                       ELSE api_logs
        /\ reqs' = [reqs EXCEPT ![r] = IdleSlot]
        /\ resp' = [status |-> rec.status, success |-> rec.success,
                    message |-> rec.message,
                    external |-> <<"api_logs.count", "api_logs.insert">> \o rec.external,
                    name |-> rec.name, celebrities |-> rec.celebrities,
                    failed |-> rec.failed,
                    ip |-> slot.ip, error |-> slot.error, count |-> slot.count,
                    isAllowed |-> TRUE,
                    appended |-> BagCardinality(api_logs') - BagCardinality(api_logs),
                    streak |-> lastReject[slot.ip].n,
                    body |-> [image |-> in.image, gender |-> in.gender, age |-> in.age]]
        /\ shared' = NoShared
        /\ UNCHANGED <<now, korean_names, celebrities, norm, face, card>>

\* the run of rejections of each caller, kept for the sequential specification:
\* a rejection by count extends the caller's run and notes the oldest row that
\* was counted, an admitted call ends the run
Rejections(r) ==
    LET slot == reqs[r]
    IN  lastReject' =
          IF slot.pc = "insert" THEN [lastReject EXCEPT ![slot.ip] = NoReject]
          ELSE IF resp'.status = 429 /\ ~resp'.error
          THEN [lastReject EXCEPT ![slot.ip] =
                  [n |-> IF @.n < 2 THEN @.n + 1 ELSE @.n,
                   oldest |-> OldestCounted(api_logs, slot.ip, slot.oneMinuteAgo)]]
          ELSE lastReject

\* every invocation may overlap every other, and the store may fail
Next ==
    \/ Tick
    \/ \E r \in Slots : StartOther(r)
    \/ \E r \in Slots, x \in Forwarded, a \in Remote : StartPost(r, x, a)
    \/ \E r \in Slots, o \in CountOutcomes : Count(r, o) /\ UNCHANGED <<lastReject, request>>
    \/ \E r \in Slots, o \in InsertOutcomes, in \in GateInputs :
          Insert(r, o, in) /\ UNCHANGED <<lastReject, request>>

Spec == Init /\ [][Next]_vars

\* the invocations of one caller run one at a time, and the store answers
NextSeq ==
    \/ Tick
    \/ \E r \in Slots : StartOther(r)
    \/ \E r \in Slots, x \in Forwarded, a \in Remote : StartAlone(r, x, a)
    \/ \E r \in Slots : Count(r, "ok") /\ Rejections(r) /\ UNCHANGED request
    \/ \E r \in Slots, in \in GateInputs :
          Insert(r, "ok", in) /\ Rejections(r) /\ UNCHANGED request

SpecSeq == InitSeq /\ [][NextSeq]_vars

----------------------------------------------------------------------------
(* Overlapping invocations, with room for rows beyond the limit *)

\* lines 41, 42, 22, 23, as StartPost: the lowest free slot takes the
\* invocation, until api_logs holds MaxRaceRows rows
StartRace(r, xff, remoteAddress) ==
    /\ reqs[r].pc = "idle"
    /\ \A q \in Slots : q < r => reqs[q].pc # "idle"
    /\ BagCardinality(api_logs) + Cardinality(InFlight) < MaxRaceRows
    /\ reqs' = [reqs EXCEPT ![r] =
                  [pc |-> "count", ip |-> clientIp(xff, remoteAddress),
                   oneMinuteAgo |-> now - WindowSec, error |-> FALSE, count |-> 0]]
    /\ resp' = NoResp
    /\ shared' = NoShared
    /\ UNCHANGED <<now, api_logs, lastReject, korean_names, celebrities, norm, face,
                   request, card>>

\* up to MaxInFlight invocations overlap in every way, of one caller or of two;
\* the count query answers, the insert stores its row or fails
NextRace ==
    \/ Tick
    \/ \E r \in Slots, x \in Forwarded, a \in Remote : StartRace(r, x, a)
    \/ \E r \in Slots : Count(r, "ok") /\ UNCHANGED <<lastReject, request>>
    \/ \E r \in Slots, o \in InsertOutcomes :
          Insert(r, o, PlainInput) /\ UNCHANGED <<lastReject, request>>

SpecRace == Init /\ [][NextRace]_vars

----------------------------------------------------------------------------
(* The shared result page, next to the handler that issued the result *)

\* ids a shared link can carry: none, the ids of the rows, an id of no row
SharedIds == {0, 9} \cup NameIds

\* .eq('id', id).single(): the row when exactly one row matches
SingleById(names, id) ==
    LET rows == {n \in names : n.id = id}
    IN  IF Cardinality(rows) = 1 THEN rows ELSE {}

\* getServerSideProps: the props of /result/[id]
ServerSideProps(names, celebs, id, configured, namesError, celebError) ==
    IF id = 0 \/ ~configured
    THEN [NoShared EXCEPT !.id = id, !.failed = IF configured THEN {} ELSE {"env"}]
    ELSE LET nameData == IF namesError THEN {} ELSE SingleById(names, id)
         IN  IF nameData = {}
             THEN [NoShared EXCEPT !.id = id,
                      !.failed = IF namesError THEN {"korean_names"} ELSE {}]
             ELSE LET row == CHOOSE n \in nameData : TRUE
                  IN  [id |-> id, recommendation |-> TRUE, name |-> row.id,
                       celebrities |->
                          IF celebError THEN {}
                          ELSE {c.id : c \in CelebritiesLike(celebs, row.name_id)},
                       failed |-> IF celebError THEN {"celebrities"} ELSE {}]

\* a faulty variant of ResolveShared: the page is rate limited too and files a
\* row under the address of its visitor
ResolveSharedLogged(id, configured, namesError, celebError) ==
    /\ shared' = ServerSideProps(korean_names, celebrities, id, configured,
                                 namesError, celebError)
    /\ api_logs' = api_logs (+) SetToBag({[ip_address |-> "ipB", created_at |-> now]})
    /\ UNCHANGED <<now, reqs, lastReject, resp, korean_names,
                   celebrities, norm, face, request, card>>

ResolveShared(id, configured, namesError, celebError) ==
    /\ shared' = ServerSideProps(korean_names, celebrities, id, configured,
                                 namesError, celebError)
    /\ UNCHANGED <<now, api_logs, reqs, lastReject, resp, korean_names,
                   celebrities, norm, face, request, card>>

\* the environment is configured or not, the name query and the celebrity query
\* fail or not
PageAnswers ==
    {<<TRUE, FALSE, FALSE>>, <<FALSE, FALSE, FALSE>>, <<TRUE, TRUE, FALSE>>,
     <<TRUE, FALSE, TRUE>>}

\* the tables the matching specification is run on
NameTables == {NameUniverse, {n \in NameUniverse : n.id # 1}}

InitResolve ==
    /\ InitStore
    /\ api_logs = OneSlotLeft
    /\ korean_names \in NameTables
    /\ celebrities \in SUBSET CelebUniverse

\* a caller of its own, one invocation at a time, a store that answers the rate
\* limiter; every request, classifier answer and store answer after admission
NextResolve ==
    \/ \E r \in Slots : StartOther(r)
    \/ \E r \in Slots, a \in Remote : StartAlone(r, "", a)
    \/ \E r \in Slots : Count(r, "ok") /\ UNCHANGED <<lastReject, request>>
    \/ \E r \in Slots, in \in Inputs : Insert(r, "ok", in) /\ UNCHANGED <<lastReject, request>>
    \/ \E id \in SharedIds, e \in PageAnswers : ResolveShared(id, e[1], e[2], e[3])

SpecResolve == InitResolve /\ [][NextResolve]_vars

\* the handler under every interleaving and every answer of the store, and the
\* page of every id next to it
NextCore ==
    \/ Next
    \/ \E id \in SharedIds, e \in PageAnswers : ResolveShared(id, e[1], e[2], e[3])

SpecCore == Init /\ [][NextCore]_vars

----------------------------------------------------------------------------
(* The identifier normaliser and the vibe classifier on their own *)

InitNorm ==
    /\ InitServer
    /\ api_logs = EmptyBag
    /\ korean_names = NameUniverse
    /\ celebrities = CelebUniverse
    /\ face = FaceIdle
    /\ \E x \in Str(MaxLen) : norm = [NormIdle EXCEPT !.pc = "given", !.name_id = x]

\* the three call sites strip the suffix of the same name_id
Normalise ==
    /\ norm.pc = "given"
    /\ norm' = [norm EXCEPT !.pc = "once",
                            !.write = baseNameId(norm.name_id),
                            !.read = baseNameIdShared(norm.name_id),
                            !.single = baseNameIdSingle(norm.name_id)]
    /\ UNCHANGED <<now, api_logs, reqs, lastReject, resp, korean_names,
                   celebrities, shared, face, request, card>>

\* the base id is normalised once more
NormaliseAgain ==
    /\ norm.pc = "once"
    /\ norm' = [norm EXCEPT !.pc = "twice", !.twice = baseNameId(norm.write)]
    /\ UNCHANGED <<now, api_logs, reqs, lastReject, resp, korean_names,
                   celebrities, shared, face, request, card>>

NextNorm == Normalise \/ NormaliseAgain

SpecNorm == InitNorm /\ [][NextNorm]_vars

InitVibe ==
    /\ InitServer
    /\ api_logs = EmptyBag
    /\ korean_names = NameUniverse
    /\ celebrities = CelebUniverse
    /\ norm = NormIdle
    /\ \E f \in [joyLikelihood : Likelihood, sorrowLikelihood : Likelihood,
                 angerLikelihood : Likelihood] :
          face = [FaceIdle EXCEPT !.pc = "given", !.face = f]

\* both spellings of the classifier are applied to the face
Classify ==
    /\ face.pc = "given"
    /\ face' = [face EXCEPT !.pc = "classified",
                            !.vibeTag = vibeTag(face.face),
                            !.ternary = vibeTagTernary(face.face)]
    /\ UNCHANGED <<now, api_logs, reqs, lastReject, resp, korean_names,
                   celebrities, shared, norm, request, card>>

\* the classification is handed on
Forget ==
    /\ face.pc = "classified"
    /\ face' = [face EXCEPT !.pc = "given"]
    /\ UNCHANGED <<now, api_logs, reqs, lastReject, resp, korean_names,
                   celebrities, shared, norm, request, card>>

NextVibe == Classify \/ Forget

SpecVibe == InitVibe /\ [][NextVibe]_vars

----------------------------------------------------------------------------
(* The handler with the request of each answer on record *)

\* the request of the invocation that answers in this step carried `in`; the
\* handler reads it at line 48 at the earliest, so it is drawn when the answer
\* is given
Asked(in) == request' = IF resp'.status = 0 THEN NoRequest ELSE in

\* one caller with one slot left, one invocation at a time; the count query and
\* the insert answer or fail, and every request, classifier answer and store
\* answer is tried
InitHandler ==
    /\ InitStore
    /\ api_logs = OneSlotLeft
    /\ korean_names \in NameTables
    /\ celebrities = CelebUniverse

NextHandler ==
    \/ \E r \in Slots : StartOther(r) /\ UNCHANGED request
    \/ \E r \in Slots, a \in Remote : StartAlone(r, "ipA", a) /\ UNCHANGED request
    \/ \E r \in Slots, o \in CountOutcomes, in \in Inputs :
          Count(r, o) /\ Asked(in) /\ UNCHANGED lastReject
    \/ \E r \in Slots, o \in InsertOutcomes, in \in Inputs :
          Insert(r, o, in) /\ Asked(in) /\ UNCHANGED lastReject

SpecHandler == InitHandler /\ [][NextHandler]_vars

\* requests of the callers one after the other on an empty table, the store
\* answering the rate limiter
NextBurst ==
    \/ Tick /\ UNCHANGED request
    \/ \E r \in Slots, x \in Forwarded, a \in Remote :
          StartAlone(r, x, a) /\ UNCHANGED request
    \/ \E r \in Slots, in \in GateInputs :
          Count(r, "ok") /\ Asked(in) /\ UNCHANGED lastReject
    \/ \E r \in Slots, in \in GateInputs :
          Insert(r, "ok", in) /\ Asked(in) /\ UNCHANGED lastReject

SpecBurst == InitSeq /\ [][NextBurst]_vars

----------------------------------------------------------------------------
(* The handler when a query of checkRateLimit throws *)

\* the invocation left the handler at line 42, outside the try block of lines
\* 47-111: the handler has sent nothing
Unanswered(slot, external) ==
    [NoResp EXCEPT !.ip = slot.ip, !.external = external, !.failed = {"checkRateLimit"}]

\* line 23: the promise of the count query is rejected; checkRateLimit and the
\* handler are left by the exception
CountThrows(r) ==
    LET slot == reqs[r]
    IN  /\ slot.pc = "count"
        /\ reqs' = [reqs EXCEPT ![r] = IdleSlot]
        /\ resp' = Unanswered(slot, <<"api_logs.count">>)
        /\ shared' = NoShared
        /\ UNCHANGED <<now, api_logs, lastReject, korean_names, celebrities, norm, face,
                       request, card>>

\* line 26: the promise of the insert is rejected, with the row stored or not
InsertThrows(r, stored) ==
    LET slot == reqs[r]
    IN  /\ slot.pc = "insert"
        /\ api_logs' = IF stored
                       THEN api_logs (+)
                            SetToBag({[ip_address |-> slot.ip, created_at |-> now]})
                       ELSE api_logs
        /\ reqs' = [reqs EXCEPT ![r] = IdleSlot]
        /\ resp' = Unanswered(slot, <<"api_logs.count", "api_logs.insert">>)
        /\ shared' = NoShared
        /\ UNCHANGED <<now, lastReject, korean_names, celebrities, norm, face, request, card>>

\* one caller, one invocation at a time; the store answers, fails or throws
NextThrow ==
    \/ \E r \in Slots : StartOther(r)
    \/ \E r \in Slots, a \in Remote : StartAlone(r, "ipA", a)
    \/ \E r \in Slots, o \in CountOutcomes : Count(r, o) /\ UNCHANGED <<lastReject, request>>
    \/ \E r \in Slots, o \in InsertOutcomes, in \in Inputs :
          Insert(r, o, in) /\ UNCHANGED <<lastReject, request>>
    \/ \E r \in Slots : CountThrows(r)
    \/ \E r \in Slots, stored \in BOOLEAN : InsertThrows(r, stored)

SpecThrow == InitHandler /\ [][NextThrow]_vars

----------------------------------------------------------------------------
(* The handler behind a chain of proxies *)

\* the callers come directly, through one proxy or through two
NextForwarded ==
    \/ \E r \in Slots, x \in Forwarded \cup ForwardedChains, a \in Remote :
          StartAlone(r, x, a)
    \/ \E r \in Slots : Count(r, "ok") /\ UNCHANGED <<lastReject, request>>
    \/ \E r \in Slots, in \in GateInputs :
          Insert(r, "ok", in) /\ UNCHANGED <<lastReject, request>>

SpecForwarded == Init /\ [][NextForwarded]_vars

----------------------------------------------------------------------------
(* The handler of src/pages/api/analyze.ts (lines 32-105): no rate limiter *)

\* error.message of what the classifier or the store client throws
ErrorTexts ==
    {"7 PERMISSION_DENIED: Cloud Vision API has not been used in project 4711",
     "connect ECONNREFUSED 10.0.3.7:5432"}

\* what is thrown: an Error object or something else, with its text
Thrown == [isError : BOOLEAN, message : ErrorTexts]

\* .eq('name_id', x).single() on celebrities: the row when exactly one matches
SingleCelebrity(celebs, x) ==
    LET rows == {c \in celebs : c.name_id = x}
    IN  IF Cardinality(rows) = 1 THEN rows ELSE {}

\* .eq('name_id', x).limit(1), then celebrityData[0]: the store's first row
FirstCelebrity(celebs, x) ==
    LET rows == {c \in celebs : c.name_id = x}
    IN  IF rows = {} THEN {}
        ELSE {CHOOSE c \in rows : \A d \in rows : c.id <= d.id}

\* .eq('gender_primary', gender).like('vibe_tags', `%${vibeTag}%`)
CandidateNamesExact(names, tag, gender) ==
    { n \in names :
        /\ n.gender_primary = gender
        /\ Like(n.vibe_tags, <<"%">> \o TagChars(tag) \o <<"%">>) }

\* lines 96-104: the catch block of the handler
CaughtMessage(error) ==
    IF error.isError THEN "Server error: " \o error.message
    ELSE "An unknown error occurred during the recommendation process."

\* lines 40-104: from the validation of the body to the response
handlerAnalyze(names, celebs, in, error) ==
    IF in.image = "" \/ in.gender = "" \/ in.age = ""
    THEN Answer(400, "Image, gender, and age are required.", << >>, {})
    ELSE IF in.age = "999"
    THEN LET nameData == IF in.namesError THEN {} ELSE SingleByNameId(names, SEOJUN)
             celebData == IF in.celebError THEN {} ELSE SingleCelebrity(celebs, SEOJUN)
         IN  [status |-> 200, success |-> TRUE, message |-> "",
              external |-> <<"korean_names", "celebrities">>,
              name |-> IF nameData = {} THEN 0 ELSE (CHOOSE n \in nameData : TRUE).id,
              celebrities |-> {c.id : c \in celebData},
              failed |-> (IF in.namesError THEN {"korean_names"} ELSE {})
                            \cup (IF in.celebError THEN {"celebrities"} ELSE {})]
    ELSE IF in.vision = "throw"
    THEN Answer(500, CaughtMessage(error), <<"annotateImage">>, {"annotateImage"})
    ELSE IF in.faces # 1
    THEN Answer(400, FaceCountMessage(in.faces), <<"annotateImage">>, {})
    ELSE IF in.namesError
    THEN Answer(500, CaughtMessage(error), <<"annotateImage", "korean_names">>,
                {"korean_names"})
    ELSE LET found == CandidateNamesExact(names, vibeTagTernary(in.face), in.gender)
         IN  IF found = {}
             THEN Answer(404, "Sorry, we couldn't find a matching name for your vibe.",
                         <<"annotateImage", "korean_names">>, {})
             ELSE LET recommendedName == RandomName(found, in.random)
                  IN  [status |-> 200, success |-> TRUE, message |-> "",
                       external |-> <<"annotateImage", "korean_names", "celebrities">>,
                       name |-> recommendedName.id,
                       celebrities |->
                          IF in.celebError THEN {}
                          ELSE {c.id : c \in FirstCelebrity(celebs, recommendedName.name_id)},
                       failed |-> IF in.celebError THEN {"celebrities"} ELSE {}]

\* one invocation of the handler, from the request to the response
Analyze(in, error) ==
    LET rec == handlerAnalyze(korean_names, celebrities, in, error)
    IN  /\ resp' = [NoResp EXCEPT !.status = rec.status, !.success = rec.success,
                                  !.message = rec.message, !.external = rec.external,
                                  !.name = rec.name, !.celebrities = rec.celebrities,
                                  !.failed = rec.failed,
                                  !.body = [image |-> in.image, gender |-> in.gender,
                                            age |-> in.age]]
        /\ request' = in
        /\ UNCHANGED <<now, api_logs, reqs, lastReject, korean_names, celebrities,
                       shared, norm, face, card>>

\* lines 36-38: anything but POST
AnalyzeOther ==
    /\ resp' = [NoResp EXCEPT !.status = 405, !.message = "Method Not Allowed"]
    /\ request' = NoRequest
    /\ UNCHANGED <<now, api_logs, reqs, lastReject, korean_names, celebrities,
                   shared, norm, face, card>>

\* the name table as it is seeded, and before 'seojun' was added to it
AnalyzeTables == {NameUniverse, {n \in NameUniverse : n.name_id # SEOJUN}}

InitAnalyze ==
    /\ InitStore
    /\ api_logs = EmptyBag
    /\ korean_names \in AnalyzeTables
    /\ celebrities = CelebUniverse

NextAnalyze ==
    \/ AnalyzeOther
    \/ \E in \in Inputs, error \in Thrown : Analyze(in, error)

SpecAnalyze == InitAnalyze /\ [][NextAnalyze]_vars

----------------------------------------------------------------------------
(* The result card of src/unnamed/part_002 (lines 205-289) *)

\* what generateImageBlob does: a blob, null (no card or no library), an exception
BlobOutcomes == {"blob", "null", "throw"}

\* what navigator.share or navigator.clipboard.writeText does
ShareOutcomes == {"ok", "throw"}

\* lines 229-232: showFeedback sets the message and starts the timer that clears it
ShownFeedback(c, msg) == [c EXCEPT !.shareMessage = msg, !.timers = @ + 1]

\* what a handler's closure leaves behind when it has run to its end
Settled(c, isSharing, what) ==
    [c EXCEPT !.isSharing = isSharing, !.pc = "idle", !.done = what]

\* everything but the card
Server ==
    <<now, api_logs, reqs, lastReject, resp, korean_names, celebrities, shared,
      norm, face, request>>

\* lines 212-214: useEffect reads the user agent after the first render
Mount(mobile) ==
    /\ ~card.mounted
    /\ card' = [card EXCEPT !.mounted = TRUE, !.isMobile = mobile]
    /\ UNCHANGED Server

\* the callback of setTimeout(() => setShareMessage(''), 3000)
TimerFires ==
    /\ card.timers > 0
    /\ card' = [card EXCEPT !.shareMessage = "", !.timers = @ - 1]
    /\ UNCHANGED Server

\* a button with disabled={isSharing} is clicked (lines 335, 339): the handler
\* of this render starts, sets the flag and awaits (lines 235-237, 267-281)
Click(handler) ==
    /\ ~card.isSharing
    /\ card.pc = "idle"
    /\ card.timers < MaxTimers
    /\ card' = [card EXCEPT !.isSharing = TRUE, !.pc = handler, !.mobile = card.isMobile,
                            !.done = ""]
    /\ UNCHANGED Server

\* lines 237-263 of handleDownload, from the answer of generateImageBlob on;
\* isMobile is the one of the render the click was made in
DownloadSettles(outcome, popup) ==
    /\ card.pc = "handleDownload"
    /\ card' =
         IF outcome = "null"
         THEN Settled(ShownFeedback(card, "Image creation failed."), FALSE, "null")
         ELSE IF outcome = "throw"
         THEN Settled(ShownFeedback(card, "Failed to create image."),
                      IF ~card.mobile THEN FALSE ELSE card.isSharing, "throw")
         ELSE IF card.mobile
         THEN Settled(ShownFeedback(card, IF popup THEN "Long-press the image to save!"
                                          ELSE "Please allow pop-ups to save."),
                      card.isSharing, "blob")
         ELSE Settled(card, FALSE, "blob")
    /\ UNCHANGED Server

\* lines 268-288 of handleShare, from the answer of navigator.share or of
\* navigator.clipboard.writeText on
ShareSettles(outcome, canShare) ==
    /\ card.pc = "handleShare"
    /\ card' =
         IF outcome = "throw"
         THEN Settled(ShownFeedback(card, "Sharing failed. Please try again."), FALSE,
                      "throw")
         ELSE IF card.mobile /\ canShare
         THEN Settled(card, FALSE, "ok")
         ELSE Settled(ShownFeedback(card,
                         "URL successfully copied. Share it with your friends!"),
                      FALSE, "ok")
    /\ UNCHANGED Server

NextCard ==
    \/ \E mobile \in BOOLEAN : Mount(mobile)
    \/ TimerFires
    \/ \E handler \in {"handleDownload", "handleShare"} : Click(handler)
    \/ \E outcome \in BlobOutcomes, popup \in BOOLEAN : DownloadSettles(outcome, popup)
    \/ \E outcome \in ShareOutcomes, canShare \in BOOLEAN : ShareSettles(outcome, canShare)

SpecCard == InitSeq /\ [][NextCard]_vars

----------------------------------------------------------------------------
(* Claims about the identifier normaliser (SpecNorm) *)

\* the length of the _<digits> group x ends in, 0 when it ends in none
GroupLen(x) ==
    LET ks == {k \in 1..(Len(x) - 1) :
                 /\ x[Len(x) - k] = "_"
                 /\ \A j \in (Len(x) - k + 1)..Len(x) : x[j] \in Digits}
    IN  IF ks = {} THEN 0 ELSE CHOOSE k \in ks : TRUE

\* x without the _<digits> group it ends in
WithoutGroup(x) ==
    IF GroupLen(x) = 0 THEN x ELSE SubSeq(x, 1, Len(x) - GroupLen(x) - 1)

\* C8 as stated: normalising a base id again changes nothing, for every name_id
Orig_C8 == norm.pc = "twice" => norm.twice = norm.write

\* C8 as amended: normalising a base id again changes nothing exactly when the
\* name_id ends in at most one _<digits> group; when it ends in more than one
\* (a_1_0), the second application removes one more group
Thm_C8 ==
    norm.pc = "twice" =>
        IF GroupLen(WithoutGroup(norm.name_id)) = 0
        THEN norm.twice = norm.write
        ELSE /\ norm.twice # norm.write
             /\ norm.twice = WithoutGroup(norm.write)

Witness_C8 ==
    /\ norm.pc = "twice"
    /\ GroupLen(norm.name_id) > 0
    /\ GroupLen(WithoutGroup(norm.name_id)) = 0
    /\ norm.write # norm.name_id
    /\ norm.twice = norm.write

\* C9: the base id is the name_id without the one _<digits> group it ends in,
\* and the name_id itself when it ends in none; the handler, the shared page
\* and the single-celebrity handler compute the same base id
Thm_C9 ==
    /\ norm.pc \in {"once", "twice"} =>
          /\ norm.write = WithoutGroup(norm.name_id)
          /\ norm.read = norm.write
          /\ norm.single = norm.write
    /\ baseNameId(debugFullNameId) = JISOO
    /\ baseNameIdShared(debugFullNameId) = JISOO
    /\ baseNameId(SEOJUN) = SEOJUN
    /\ baseNameIdShared(SEOJUN) = SEOJUN

Witness_C9 ==
    /\ norm.pc = "once"
    /\ norm.name_id = <<"a", "_", "1", "_", "0">>
    /\ norm.write = <<"a", "_", "1">>
    /\ norm.read = <<"a", "_", "1">>

----------------------------------------------------------------------------
(* Claims about the vibe classifier (SpecVibe) *)

High(likelihood) == likelihood \in {"LIKELY", "VERY_LIKELY"}

Policy(f) ==
    IF High(f.joyLikelihood) THEN "friendly"
    ELSE IF High(f.sorrowLikelihood) THEN "calm"
    ELSE IF High(f.angerLikelihood) THEN "cool"
    ELSE "friendly"

\* C10: friendly if joy is high, else calm if sorrow is high, else cool if anger
\* is high, else friendly; one of the three tags is always returned, by the
\* if-chain and by the conditional expression alike
Thm_C10 ==
    face.pc = "classified" =>
        /\ face.vibeTag = Policy(face.face)
        /\ face.ternary = Policy(face.face)
        /\ face.vibeTag \in {"friendly", "calm", "cool"}
        /\ High(face.face.joyLikelihood) => face.vibeTag = "friendly"
        /\ (~High(face.face.joyLikelihood) /\ High(face.face.sorrowLikelihood))
              => face.vibeTag = "calm"

Witness_C10 ==
    /\ face.pc = "classified"
    /\ face.face.joyLikelihood = "VERY_LIKELY"
    /\ face.face.sorrowLikelihood = "VERY_LIKELY"
    /\ face.face.angerLikelihood = "LIKELY"
    /\ face.vibeTag = "friendly"

----------------------------------------------------------------------------
(* Claims about the rate limiter and the handler *)

\* the rows of a caller with from <= created_at <= to
RowsBetween(ip, from, to) ==
    LET kinds == {row \in BagToSet(api_logs) :
                    /\ row.ip_address = ip
                    /\ row.created_at >= from
                    /\ row.created_at <= to}
    IN  BagCardinality([row \in kinds |-> CopiesIn(row, api_logs)])

\* the rows of a caller in the 60 seconds that end at t
InWindow(ip, t) == RowsBetween(ip, t - WindowSec, t)

Answers(r) == reqs[r].pc = "count" /\ reqs'[r].pc # "count"

Returns(r) == reqs[r].pc = "insert" /\ reqs'[r].pc # "insert"

OneRow(ip, t) == SetToBag({[ip_address |-> ip, created_at |-> t]})

WindowStarts ==
    \A r \in Slots :
        (reqs[r].pc = "idle" /\ reqs'[r].pc = "count") =>
            reqs'[r].oneMinuteAgo = now - WindowSec

CountDecides ==
    \A r \in Slots :
        Answers(r) =>
            /\ api_logs' = api_logs
            /\ IF RowsBetween(reqs[r].ip, reqs[r].oneMinuteAgo, now) >= Limit
               THEN /\ reqs'[r].pc = "idle"
                    /\ resp'.status = 429
                    /\ resp'.ip = reqs[r].ip
                    /\ ~resp'.isAllowed
               ELSE /\ reqs'[r].pc = "insert"
                    /\ resp'.status = 0

InsertAdmits ==
    \A r \in Slots :
        Returns(r) =>
            /\ api_logs' = api_logs (+) OneRow(reqs[r].ip, now)
            /\ resp'.isAllowed
            /\ resp'.ip = reqs[r].ip
            /\ resp'.status \notin {0, 429}

AtMostLimit == \A ip \in Callers, t \in Instants : InWindow(ip, t) <= Limit

\* C1: with the calls of a caller handled one at a time and the store
\* answering, the window of a call starts 60 seconds before the call; a call
\* that finds 5 or more rows of its caller in its window is turned away and
\* leaves api_logs as it is; a call that finds fewer adds exactly one row of its
\* caller and is admitted; no 60 seconds hold more than 5 rows of one caller
Thm_C1 == []AtMostLimit /\ [][WindowStarts /\ CountDecides /\ InsertAdmits]_vars

\* the sixth call of a caller in one window is turned away
Witness_C1 ==
    /\ resp.status = 429
    /\ resp.ip = "ipA"
    /\ resp.count = Limit
    /\ InWindow("ipA", now) = Limit
    /\ BagCardinality(api_logs) = Limit

\* C2 as stated: with one slot left for a caller, two overlapping calls of that
\* caller are never both let through by the count
Orig_C2 ==
    \A r1, r2 \in Slots :
        (/\ r1 # r2
         /\ reqs[r1].pc = "insert"
         /\ reqs[r2].pc = "insert"
         /\ reqs[r1].ip = reqs[r2].ip)
        => ~(reqs[r1].count = Limit - 1 /\ reqs[r2].count = Limit - 1)

\* the body lacks the gender, or lacks both the image and the override marker
FailsValidation(body) ==
    body.gender = "" \/ (body.image = "" /\ body.age # "999")

\* C3 as stated: a request that fails the validation is answered 400 without a
\* row in api_logs and without a call to the store or the classifier
Orig_C3 ==
    (resp.isAllowed /\ FailsValidation(resp.body)) =>
        /\ resp.status = 400
        /\ resp.appended = 0
        /\ resp.external = << >>

\* C4: a count query that answers with an error makes checkRateLimit return
\* false, adds no row, and the request is answered 429
Thm_C4 ==
    resp.error =>
        /\ ~resp.isAllowed
        /\ resp.appended = 0
        /\ resp.status = 429
        /\ resp.external = <<"api_logs.count">>

Witness_C4 ==
    /\ resp.error
    /\ resp.status = 429
    /\ resp.ip = "ipB"
    /\ BagCardinality(api_logs) = Limit - 1

\* C5 as stated: an admitted call has added a row of its caller to api_logs
Orig_C5 ==
    resp.isAllowed =>
        /\ resp.appended = 1
        /\ \E row \in BagToSet(api_logs) :
              row.ip_address = resp.ip /\ row.created_at = now

AfterRejection(r) ==
    /\ lastReject[reqs[r].ip].n > 0
    /\ lastReject[reqs[r].ip].oldest < reqs[r].oneMinuteAgo

Resumes ==
    \A r \in Slots :
        /\ (Answers(r) /\ AfterRejection(r)) =>
              /\ reqs'[r].pc = "insert"
              /\ resp'.status = 0
        /\ Returns(r) =>
              /\ resp'.isAllowed
              /\ resp'.status \notin {0, 429}

\* C6: a caller that was turned away on a count of 5 is admitted again by its
\* first call made more than 60 seconds after the oldest of the 5 counted rows,
\* however many of its calls were turned away in between
Thm_C6 ==
    /\ [](resp.status = 429 => (resp.count = Limit /\ ~resp.error))
    /\ [][Resumes]_vars

\* admitted after two rejections and a wait
Witness_C6 ==
    /\ resp.isAllowed
    /\ resp.streak = 2
    /\ resp.ip = "ipA"
    /\ now = MaxTime
    /\ InWindow("ipA", now) < BagCardinality(api_logs)

\* the celebrities whose name_id is the base id of the name
Companions(id) ==
    {c.id : c \in {x \in celebrities :
        \E n \in korean_names : n.id = id /\ x.name_id = WithoutGroup(n.name_id)}}

\* C7 as stated: the shared page of a name the handler returned shows that name
\* and the celebrities the handler returned with it, for every celebrity table
Orig_C7 ==
    (/\ resp.status = 200
     /\ resp.failed = {}
     /\ shared.id = resp.name
     /\ shared.failed = {})
    => /\ shared.recommendation
       /\ shared.name = resp.name
       /\ shared.celebrities = resp.celebrities
       /\ shared.celebrities = Companions(resp.name)

----------------------------------------------------------------------------
(* Claims about the steps of the handler (SpecHandler, SpecBurst) *)

\* the answer was given after a call to `what`
Called(what) == \E i \in DOMAIN resp.external : resp.external[i] = what

\* the row the debug override is configured to return, when the table holds it
DebugName == {n.id : n \in SingleByNameId(korean_names, debugFullNameId)}

\* C11 as stated: an admitted request with a gender and age '999' is answered
\* with the configured name and without a classifier call whatever its image
\* is, also when it carries no image
Orig_C11 ==
    (/\ resp.isAllowed
     /\ request.age = "999"
     /\ request.gender # ""
     /\ ~request.namesError
     /\ DebugName # {})
    => /\ resp.status = 200
       /\ resp.name \in DebugName
       /\ ~Called("annotateImage")

\* C12 as stated: every request {gender F, age 999} of a caller is answered
\* 200 with the configured name and its celebrities, however many were made
Orig_C12 ==
    (/\ resp.status \notin {0, 405}
     /\ request.gender = "F"
     /\ request.age = "999")
    => /\ resp.status = 200
       /\ resp.success
       /\ resp.name \in DebugName
       /\ resp.celebrities = Companions(resp.name)

\* what the handler answers to the request on its merits, the rate limiter aside
OwnMerits(in) ==
    LET rec == Recommend(korean_names, celebrities, in)
    IN  [status |-> rec.status, success |-> rec.success, message |-> rec.message,
         name |-> rec.name, celebrities |-> rec.celebrities]

Merits(answer) ==
    [status |-> answer.status, success |-> answer.success,
     message |-> answer.message, name |-> answer.name,
     celebrities |-> answer.celebrities]

SixthIsTurnedAway ==
    \A r \in Slots :
        /\ (Answers(r) /\ RowsBetween(reqs[r].ip, now - 10, now) >= Limit) =>
              /\ resp'.status = 429
              /\ ~resp'.success
              /\ api_logs' = api_logs
              /\ request' \in GateInputs
        /\ (Answers(r) /\ RowsBetween(reqs[r].ip, 0, MaxTime) < Limit) =>
              /\ reqs'[r].pc = "insert"
              /\ resp'.status = 0
        /\ Returns(r) =>
              /\ resp'.isAllowed
              /\ Merits(resp') = OwnMerits(request')

\* C13: with the requests of a caller handled one after the other, a request
\* of a caller that made fewer than 5 requests is admitted and answered on its
\* merits, and a request of a caller with 5 admitted requests in the last 10
\* seconds is answered 429 without a row, whatever its body is
Thm_C13 == [][SixthIsTurnedAway]_vars

\* the sixth request of a burst, with a body that fails the validation, is
\* answered 429
Witness_C13 ==
    /\ resp.status = 429
    /\ resp.ip = "ipA"
    /\ request.gender = ""
    /\ RowsBetween("ipA", now - 10, now) = Limit
    /\ BagCardinality(api_logs) = Limit

IsPrefix(s, t) == Len(s) <= Len(t) /\ s = SubSeq(t, 1, Len(s))

\* the calls of a request in the order of the steps; the override goes from
\* admission to the lookup of the configured name
StepOrder ==
    <<"api_logs.count", "api_logs.insert", "annotateImage", "korean_names",
      "celebrities">>

OverrideOrder ==
    <<"api_logs.count", "api_logs.insert", "korean_names", "celebrities">>

\* C14: the calls of a request are made in the order admission,
\* classification, candidate query, celebrity query, and stop at the step that
\* fails: 429 after the count alone, a wrong face count without a candidate
\* query, 404 without a celebrity query
Thm_C14 ==
    /\ resp.status \notin {0, 405} =>
          \/ IsPrefix(resp.external, StepOrder)
          \/ request.age = "999" /\ IsPrefix(resp.external, OverrideOrder)
    /\ resp.status = 429 => resp.external = <<"api_logs.count">>
    /\ (/\ resp.isAllowed
        /\ BodyOk(request)
        /\ request.age # "999"
        /\ request.vision = "ok"
        /\ request.faces # 1) =>
          /\ resp.status = 400
          /\ resp.external = SubSeq(StepOrder, 1, 3)
    /\ (resp.isAllowed /\ request.vision = "throw" /\ Called("annotateImage")) =>
          /\ resp.status = 500
          /\ resp.external = SubSeq(StepOrder, 1, 3)
    /\ resp.status = 404 => ~Called("celebrities")
    /\ Called("celebrities") => resp.status = 200

\* no candidate for the vibe and the gender: 404 after the candidate query
Witness_C14 ==
    /\ resp.status = 404
    /\ ~request.namesError
    /\ request.age # "999"
    /\ resp.external = SubSeq(StepOrder, 1, 4)

\* t occurs in s
Contains(s, t) ==
    \E i \in 1..(Len(s) - Len(t) + 1) : SubSeq(s, i, i + Len(t) - 1) = t

NameRow(id) == CHOOSE n \in korean_names : n.id = id

\* C15 as stated: the name of a recommendation has the derived vibe in its
\* vibe_tags, and its gender is the requested gender: a unisex name is
\* returned to a unisex request only
Orig_C15 ==
    (resp.status = 200 /\ request.age # "999") =>
        /\ Contains(NameRow(resp.name).vibe_tags, TagChars(vibeTag(request.face)))
        /\ NameRow(resp.name).gender_primary = request.gender

\* C16 as stated: a request whose candidate query or celebrity query was
\* answered with an error by the store is answered 500
Orig_C16 ==
    (/\ resp.isAllowed
     /\ \/ "korean_names" \in resp.failed /\ request.age # "999"
        \/ "celebrities" \in resp.failed)
    => resp.status = 500

\* C17 as stated: the celebrities of a 200 answer are exactly the rows of the
\* celebrity table filed under the base id of the returned name
Orig_C17 ==
    resp.status = 200 => resp.celebrities = Companions(resp.name)

\* the request went to the classifier, which reported no face list (-1), no
\* face, or more than one face
WrongFaceCount ==
    /\ resp.isAllowed
    /\ BodyOk(request)
    /\ request.age # "999"
    /\ request.vision = "ok"
    /\ request.faces # 1

\* C18: a face count other than 1 is answered 400 with the count in the
\* message, 0 when no face list came back, and no name is selected
Thm_C18 ==
    WrongFaceCount =>
        /\ resp.status = 400
        /\ ~resp.success
        /\ resp.name = 0
        /\ resp.celebrities = {}
        /\ ~Called("korean_names")
        /\ resp.message =
              CASE request.faces = -1 -> "Expected 1 face, but found 0."
                [] request.faces = 0 -> "Expected 1 face, but found 0."
                [] request.faces = 2 -> "Expected 1 face, but found 2."

\* no face list came back: the message says 0
Witness_C18 ==
    /\ WrongFaceCount
    /\ request.faces = -1
    /\ resp.status = 400
    /\ resp.message = "Expected 1 face, but found 0."

\* how many times the answer's invocation called `what`
Calls(what) == Cardinality({i \in DOMAIN resp.external : resp.external[i] = what})

OneWriteOneClassification ==
    /\ resp.appended \in {0, 1}
    /\ Calls("api_logs.insert") <= 1
    /\ Calls("annotateImage") <= 1
    /\ resp.status = 429 => (resp.appended = 0 /\ Calls("annotateImage") = 0)
    /\ (resp.isAllowed /\ ~BodyOk(request)) => Calls("annotateImage") = 0
    /\ (resp.isAllowed /\ request.age = "999") => Calls("annotateImage") = 0
    /\ (resp.isAllowed /\ BodyOk(request) /\ request.age # "999") =>
          Calls("annotateImage") = 1
    /\ (resp.isAllowed /\ request.vision = "throw" /\ Calls("annotateImage") = 1) =>
          resp.status = 500

\* api_logs changes by one row of the caller, when checkRateLimit returns true
WritesAtAdmission ==
    \/ api_logs' = api_logs
    \/ \E r \in Slots :
          /\ Returns(r)
          /\ resp'.isAllowed
          /\ api_logs' = api_logs (+) OneRow(reqs[r].ip, now)

\* C19: a request adds at most one row to api_logs, when it is admitted, and
\* calls the classifier at most once: not at all when it is turned away, fails
\* the validation or carries the override, and once, without a second try,
\* when the classifier throws
Thm_C19 == []OneWriteOneClassification /\ [][WritesAtAdmission]_vars

\* the classifier threw: one call, one row, answer 500
Witness_C19 ==
    /\ resp.isAllowed
    /\ request.vision = "throw"
    /\ resp.status = 500
    /\ resp.appended = 1
    /\ Calls("annotateImage") = 1

----------------------------------------------------------------------------
(* Claims about the handler of src/pages/api/analyze.ts (SpecAnalyze) *)

\* C20 as stated: the message of a 500 answer is the one the same request gets
\* whatever the classifier or the store threw
Orig_C20 ==
    resp.status = 500 =>
        \A error \in Thrown :
            handlerAnalyze(korean_names, celebrities, request, error).message
                = resp.message

----------------------------------------------------------------------------
(* Claims about the caller's identity (SpecForwarded) *)

\* the addresses that a value of x-forwarded-for lists, in order
Entries(xff) ==
    CASE xff = "" -> << >>
      [] xff = "ipA, ipC" -> <<"ipA", "ipC">>
      [] xff = "ipA, ipD" -> <<"ipA", "ipD">>
      [] OTHER -> <<xff>>

\* C21 as stated: the identity the rate limiter counts and stores is one
\* address, the first entry of x-forwarded-for or the socket's address, and the
\* rows of two requests whose headers begin with the same entry are filed under
\* one identity
Orig_C21 ==
    /\ \A r \in Slots : reqs[r].pc # "idle" => Len(Entries(reqs[r].ip)) = 1
    /\ \A row, other \in BagToSet(api_logs) :
          Head(Entries(row.ip_address)) = Head(Entries(other.ip_address))
              => row.ip_address = other.ip_address

----------------------------------------------------------------------------
(* Claims about the override of src/pages/api/analyze.ts (SpecAnalyze) *)

\* C22 as stated: a request with age '999' and a full body is answered without
\* the classifier and without the candidate query; when the fixed name is not
\* in the table the answer is 404, and a success always carries a name
Orig_C22 ==
    (resp.status # 0 /\ BodyOk(resp.body) /\ resp.body.age = "999") =>
        /\ ~Called("annotateImage")
        /\ SingleByNameId(korean_names, SEOJUN) = {} =>
              resp.status = 404 /\ ~resp.success
        /\ resp.success => resp.name # 0

----------------------------------------------------------------------------
(* Claims about the shared result page on its own (SpecResolve) *)

\* C23 as stated: the page of an id that no name has gets no recommendation;
\* the page of every other id gets the name of that id and a list of
\* celebrities of the table, which may be empty
Orig_C23 ==
    IF \E n \in korean_names : n.id = shared.id
    THEN /\ shared.recommendation
         /\ shared.name = shared.id
         /\ shared.celebrities \subseteq {c.id : c \in celebrities}
    ELSE ~shared.recommendation

----------------------------------------------------------------------------
(* Claims about the candidates of the handler (SpecHandler) *)

\* the rows the candidate query of the answered request selects
Candidates == CandidateNames(korean_names, vibeTag(request.face), request.gender)

\* the request was answered after its candidate query
Searched == resp.status # 0 /\ Called("annotateImage") /\ Called("korean_names")

\* C24 as stated: a candidate query that answers with no row ends the request
\* with 404 and no name, and a 404 after the candidate query means that the
\* query answered, with no row
Orig_C24 ==
    /\ (Searched /\ resp.failed = {} /\ Candidates = {}) =>
          resp.status = 404 /\ resp.name = 0
    /\ (Searched /\ resp.status = 404) =>
          "korean_names" \notin resp.failed /\ Candidates = {}

\* the values Math.random() takes in the model
Draws == 0..(RandomGrain - 1)

\* C29: a name found by the candidate query and the random choice is one of the
\* rows that query returned for the vibe of the face and the gender of the
\* request, and each of these rows is chosen for some value of Math.random()
Thm_C29 ==
    (resp.status = 200 /\ Searched) =>
        /\ resp.name \in {n.id : n \in Candidates}
        /\ resp.name = RandomName(Candidates, request.random).id
        /\ \A n \in Candidates : \E u \in Draws : RandomName(Candidates, u) = n

\* the query returned several rows and the choice fell on the last of them
Witness_C29 ==
    /\ resp.status = 200
    /\ Searched
    /\ Cardinality(Candidates) > 1
    /\ \A n \in Candidates : n.id <= resp.name

----------------------------------------------------------------------------
(* Claims about what the handler and the page write (SpecCore) *)

\* no row of api_logs is changed or removed, and the other tables are not
\* written
AppendOnly ==
    /\ api_logs \sqsubseteq api_logs'
    /\ BagCardinality(api_logs') <= BagCardinality(api_logs) + 1
    /\ korean_names' = korean_names
    /\ celebrities' = celebrities

\* a step that resolves a shared link leaves api_logs as it is
PageReadsOnly == shared' # NoShared => api_logs' = api_logs

\* C25: every step of the handler and of the page keeps every row of api_logs
\* as it is, adding at most one, and leaves korean_names and celebrities
\* unchanged; the page adds no row to api_logs
Thm_C25 == [][AppendOnly /\ PageReadsOnly]_vars

\* a row was appended to the rows of the earlier calls, and then a shared link
\* was resolved to a name
Witness_C25 ==
    /\ BagCardinality(api_logs) > Limit - 1
    /\ shared.recommendation

----------------------------------------------------------------------------
(* Claims about overlapping invocations (SpecRace) *)

\* C26: with at most MaxInFlight invocations in flight at a time, no 60 seconds
\* hold more than Limit + (MaxInFlight - 1) rows of one caller
Thm_C26 ==
    \A ip \in Callers, t \in Instants :
        InWindow(ip, t) <= Limit + (MaxInFlight - 1)

\* two invocations of a caller both counted Limit - 1 rows and both stored
\* theirs: the window holds Limit + 1 rows, and the table has room for more
Witness_C26 ==
    /\ resp.isAllowed
    /\ resp.count = Limit - 1
    /\ InWindow(resp.ip, now) = Limit + (MaxInFlight - 1)
    /\ BagCardinality(api_logs) < MaxRaceRows

\* api_logs as it would be had no other caller ever been admitted
OwnRows(ip) ==
    [row \in {x \in BagToSet(api_logs) : x.ip_address = ip} |-> CopiesIn(row, api_logs)]

\* the count lets a call pass exactly when it would on the caller's own rows
AdmitsOnOwnRows ==
    \A r \in Slots :
        Answers(r) =>
            (reqs'[r].pc = "insert")
                = ~OverLimit(CountRows(OwnRows(reqs[r].ip), reqs[r].ip,
                                       reqs[r].oneMinuteAgo))

\* the rows of a caller change only when a call of that caller is admitted
KeepsOtherRows ==
    \A ip \in Callers :
        (\A r \in Slots : ~(Returns(r) /\ reqs[r].ip = ip)) =>
            OwnRows(ip)' = OwnRows(ip)

\* C27: whatever the calls of the other callers do and in whatever order, a call
\* is admitted or turned away as it would be on the rows of its own caller, and
\* those rows are written by that caller's calls only
Thm_C27 == [][AdmitsOnOwnRows /\ KeepsOtherRows]_vars

\* a call of one caller is let through while another caller is at the limit
Witness_C27 ==
    \E r \in Slots :
        /\ reqs[r].pc = "insert"
        /\ reqs[r].ip = "ipB"
        /\ InWindow("ipA", now) >= Limit
        /\ InWindow("ipB", now) < Limit

----------------------------------------------------------------------------
(* Claims about the responses of the handler (SpecThrow) *)

Statuses == {200, 400, 404, 405, 429, 500}

\* C28 as stated: an invocation that has ended has sent a response, its status
\* is one of 200, 400, 404, 405, 429 and 500, and success is true only with 200
Orig_C28 ==
    (resp.status # 0 \/ resp.ip # "") =>
        /\ resp.status \in Statuses
        /\ resp.success => resp.status = 200

----------------------------------------------------------------------------
(* Claims about the result card (SpecCard) *)

\* C30 as stated: whenever no handler of the card is running, isSharing is
\* false, so the buttons can be pressed
Orig_C30 == card.pc = "idle" => ~card.isSharing

====
